---- MODULE Spec2Model ----
(***************************************************************************)
(* Quantum Sudoku (src/latest.py): the rule engine QuantumSudokuGame with  *)
(* its QuantumCell grid, and the engine-facing handlers of QuantumSudokuUI.*)
(*                                                                         *)
(* Every engine method is an operator from a game record (and the call's   *)
(* arguments) to the SET of its possible outcomes [g, ret]: one outcome    *)
(* per result of the random source.  The actions of the specification      *)
(* apply one method (or one UI handler) each.                              *)
(***************************************************************************)
EXTENDS Integers, Sequences, FiniteSets, TLC

(***************************************************************************)
(* Bounds of the model.                                                    *)
(***************************************************************************)
\* the player's value arguments and the digits the random source draws
\* (random.randint(1, 9), random.sample(alternatives, k)) lie in 1..MaxDigit
MaxDigit == 3
\* the mistake counters are followed up to MaxMistakes
MaxMistakes == 1
\* the session is followed up to MaxLogicMoves successful logic moves
MaxLogicMoves == 3
\* solve_board's search is followed for 2^SolveDoublings steps
SolveDoublings == 13
\* count_solutions' search is followed for 2^CountDoublings steps
CountDoublings == 16
\* the session of entanglements is followed up to MaxConversions logic moves
MaxConversions == 4

(***************************************************************************)
(* Values of the program.                                                  *)
(***************************************************************************)
None == -1

Rows == 0..8
Pos == Rows \X Rows
Digits == 1..MaxDigit
Difficulties == {"easy", "medium", "hard"}

\* QuantumCell.__init__
QuantumCell ==
  [value |-> 0, superposition |-> {}, collapsed |-> TRUE,
   entangled_with |-> {}, entanglement_group |-> None, locked |-> FALSE]

\* QuantumCell.is_quantum
is_quantum(cell) == Cardinality(cell.superposition) > 0 /\ ~cell.collapsed

\* QuantumCell.set_superposition; values is the list as a set, its first
\* element (the cell's current value) being a member
set_superposition(cell, values) ==
  IF Cardinality(values) = 1
  THEN [cell EXCEPT !.value = CHOOSE v \in values : TRUE,
                    !.collapsed = TRUE, !.superposition = {}]
  ELSE [cell EXCEPT !.superposition = values, !.collapsed = FALSE, !.value = 0]

\* collapse forgetting "self.superposition = []"
collapse_keeping_candidates(cell, value) ==
  IF cell.superposition = {} \/ cell.collapsed
  THEN {[cell |-> cell, ok |-> FALSE]}
  ELSE IF value = None
  THEN {[cell |-> [cell EXCEPT !.value = v, !.collapsed = TRUE], ok |-> TRUE]
        : v \in cell.superposition}
  ELSE IF value \in cell.superposition
  THEN {[cell |-> [cell EXCEPT !.value = value, !.collapsed = TRUE], ok |-> TRUE]}
  ELSE {[cell |-> cell, ok |-> FALSE]}

\* QuantumCell.collapse taking a value that is no candidate as no value given
collapse_to_any_candidate(cell, value) ==
  IF cell.superposition = {} \/ cell.collapsed
  THEN {[cell |-> cell, ok |-> FALSE]}
  ELSE IF value = None \/ value \notin cell.superposition
  THEN {[cell |-> [cell EXCEPT !.value = v, !.collapsed = TRUE, !.superposition = {}],
         ok |-> TRUE] : v \in cell.superposition}
  ELSE {[cell |-> [cell EXCEPT !.value = value, !.collapsed = TRUE, !.superposition = {}],
         ok |-> TRUE]}

\* QuantumCell.collapse: the set of outcomes [cell, ok], one per random choice
collapse(cell, value) ==
  IF cell.superposition = {} \/ cell.collapsed
  THEN {[cell |-> cell, ok |-> FALSE]}
  ELSE IF value = None
  THEN {[cell |-> [cell EXCEPT !.value = v, !.collapsed = TRUE, !.superposition = {}],
         ok |-> TRUE] : v \in cell.superposition}
  ELSE IF value \in cell.superposition
  THEN {[cell |-> [cell EXCEPT !.value = value, !.collapsed = TRUE, !.superposition = {}],
         ok |-> TRUE]}
  ELSE {[cell |-> cell, ok |-> FALSE]}

\* the box of a cell: range(box_row, box_row + 3) x range(box_col, box_col + 3)
Box(row, col) ==
  LET box_row == (row \div 3) * 3
      box_col == (col \div 3) * 3
  IN  (box_row..(box_row + 2)) \X (box_col..(box_col + 2))

\* the condition of each of is_valid_move's five scans
Clash(other, num, check_quantum) ==
  \/ other.collapsed /\ other.value = num
  \/ check_quantum /\ is_quantum(other) /\ num \in other.superposition

\* is_valid_move without its "New diagonal validation"
is_valid_move_without_diagonals(g, row, col, num, check_quantum) ==
  IF g.using_logic_move THEN TRUE
  ELSE
    /\ \A c \in Rows : c # col => ~Clash(g.board[<<row, c>>], num, check_quantum)
    /\ \A r \in Rows : r # row => ~Clash(g.board[<<r, col>>], num, check_quantum)
    /\ \A p \in Box(row, col) :
         (p[1] # row \/ p[2] # col) => ~Clash(g.board[p], num, check_quantum)

\* QuantumSudokuGame.is_valid_move
is_valid_move(g, row, col, num, check_quantum) ==
  IF g.using_logic_move THEN TRUE
  ELSE
    /\ \A c \in Rows : c # col => ~Clash(g.board[<<row, c>>], num, check_quantum)
    /\ \A r \in Rows : r # row => ~Clash(g.board[<<r, col>>], num, check_quantum)
    /\ \A p \in Box(row, col) :
         (p[1] # row \/ p[2] # col) => ~Clash(g.board[p], num, check_quantum)
    /\ row = col =>
         \A i \in Rows : i # row => ~Clash(g.board[<<i, i>>], num, check_quantum)
    /\ row + col = 8 =>
         \A i \in Rows : i # row => ~Clash(g.board[<<i, 8 - i>>], num, check_quantum)

\* the grid [[QuantumCell() for _ in range(9)] for _ in range(9)]
FreshBoard == CHOOSE board \in [Pos -> {QuantumCell}] : TRUE

\* QuantumSudokuGame.__init__ before setup_game
NewGame(difficulty) ==
  [board |-> FreshBoard,
   difficulty |-> difficulty,
   player_turn |-> TRUE,
   game_over |-> FALSE,
   winner |-> "None",
   message |-> "",
   entanglement_groups |-> <<>>,
   logic_moves_remaining |-> 10,
   using_logic_move |-> FALSE,
   player_mistakes |-> 0,
   ai_mistakes |-> 0]

\* the scan "for row in range(9): for col in range(9)" for the first cell
\* that is 0 in the grid of values, or <<>> when there is none
first_empty(values) ==
  LET empty_in(row) == {col \in Rows : values[<<row, col>>] = 0}
      rows == {row \in Rows : empty_in(row) # {}}
  IN  IF rows = {} THEN <<>>
      ELSE LET row == CHOOSE r \in rows : \A r2 \in rows : r <= r2
               col == CHOOSE c \in empty_in(row) : \A c2 \in empty_in(row) : c <= c2
           IN  <<row, col>>

\* QuantumSudokuGame.find_empty_cell, <<>> for None
find_empty_cell(g) == first_empty([p \in Pos |-> g.board[p].value])

(***************************************************************************)
(* solve_board, with its recursion as a stack of frames: one frame per     *)
(* activation, holding the activation's empty cell and its loop variable.  *)
(* A search is [g, frames, ret]: ret is "running" until the outermost      *)
(* activation returns "True" or "False".                                   *)
(***************************************************************************)
\* a call of solve_board on g: find_empty_cell, then "return True" or the loop
solve_call(g, stack) ==
  LET empty_cell == find_empty_cell(g)
  IN  IF empty_cell = <<>>
      THEN [g |-> g, frames |-> <<>>, ret |-> "True"]
      ELSE [g |-> g, frames |-> Append(stack, [p |-> empty_cell, num |-> 1]),
            ret |-> "running"]

\* the innermost activation runs its loop "for num in range(1, 10)" up to its
\* next recursive call, or to its "return False" and the caller's reset of
\* its cell.  (A "return True" makes every caller return True at once.)
solve_step(s) ==
  IF s.ret # "running" THEN s
  ELSE
    LET depth == Len(s.frames)
        top == s.frames[depth]
        valid == {n \in top.num..9 : is_valid_move(s.g, top.p[1], top.p[2], n, FALSE)}
    IN  IF valid # {}
        THEN LET num == CHOOSE n \in valid : \A m \in valid : n <= m
             IN  solve_call([s.g EXCEPT !.board[top.p].value = num],
                            [s.frames EXCEPT ![depth].num = num])
        ELSE IF depth = 1
        THEN [s EXCEPT !.frames = <<>>, !.ret = "False"]
        ELSE LET caller == s.frames[depth - 1]
             IN  [s EXCEPT !.g.board[caller.p].value = 0,
                           !.frames = [SubSeq(s.frames, 1, depth - 1)
                                         EXCEPT ![depth - 1].num = caller.num + 1]]

RECURSIVE solve_run(_, _)

\* 2^k steps of the search s, or as many as it takes to return
solve_run(s, k) ==
  IF s.ret # "running" THEN s
  ELSE IF k = 0 THEN solve_step(s)
  ELSE solve_run(solve_run(s, k - 1), k - 1)

\* QuantumSudokuGame.solve_board: the search run to its return
solve_board(g) ==
  LET s == solve_run(solve_call(g, <<>>), SolveDoublings)
  IN  [g |-> s.g, ret |-> s.ret = "True"]

\* QuantumSudokuGame.generate_solved_board
generate_solved_board(g) ==
  solve_board([g EXCEPT !.board = FreshBoard]).g

\* the dictionary of create_puzzle
cells_to_remove(difficulty) ==
  [easy |-> 40, medium |-> 50, hard |-> 60][difficulty]

\* the dictionary of setup_game
num_quantum(difficulty) ==
  [easy |-> 5, medium |-> 10, hard |-> 15][difficulty]

\* QuantumSudokuGame.is_valid_in_board, on a grid of values
is_valid_in_board(board, row, col, num) ==
  /\ \A c \in Rows : board[<<row, c>>] # num
  /\ \A r \in Rows : board[<<r, col>>] # num
  /\ \A p \in Box(row, col) : board[p] # num

(***************************************************************************)
(* count_solutions, with its recursion as a stack of frames: one frame per *)
(* activation, holding the activation's empty cell, its loop variable and  *)
(* its count.  A search is [board, frames, at, value]: at is "loop" while  *)
(* the innermost activation runs its loop, "return" while value is being   *)
(* returned to the innermost activation, "done" when the outermost         *)
(* activation has returned value.                                          *)
(***************************************************************************)
\* a call of count_solutions on board: the scan for an empty cell, then
\* "return 1" or the loop
count_call(board, stack) ==
  LET empty == first_empty(board)
  IN  IF empty = <<>>
      THEN [board |-> board, frames |-> stack, at |-> "return", value |-> 1]
      ELSE [board |-> board,
            frames |-> Append(stack, [p |-> empty, num |-> 1, count |-> 0]),
            at |-> "loop", value |-> 0]

\* a step of the search: the innermost activation runs its loop "for num in
\* range(1, 10)" up to its next recursive call or to its "return count"; or
\* it takes the value returned to it: "count += ...", "board[row][col] = 0"
\* and "if count > 1: return count"
count_step(s) ==
  LET depth == Len(s.frames)
      top == s.frames[depth]
  IN  IF s.at = "loop"
      THEN LET valid == {n \in top.num..9 :
                           is_valid_in_board(s.board, top.p[1], top.p[2], n)}
           IN  IF valid # {}
               THEN LET num == CHOOSE n \in valid : \A m \in valid : n <= m
                    IN  count_call([s.board EXCEPT ![top.p] = num],
                                   [s.frames EXCEPT ![depth].num = num])
               ELSE [s EXCEPT !.frames = SubSeq(s.frames, 1, depth - 1),
                              !.at = "return", !.value = top.count]
      ELSE IF s.at = "return"
      THEN IF depth = 0 THEN [s EXCEPT !.at = "done"]
           ELSE LET count == top.count + s.value
                IN  IF count > 1
                    THEN [s EXCEPT !.board[top.p] = 0,
                                   !.frames = SubSeq(s.frames, 1, depth - 1),
                                   !.value = count]
                    ELSE [s EXCEPT !.board[top.p] = 0,
                                   !.frames[depth].count = count,
                                   !.frames[depth].num = top.num + 1,
                                   !.at = "loop"]
      ELSE s

RECURSIVE count_run(_, _)

\* 2^k steps of the search s, or as many as it takes to return
count_run(s, k) ==
  IF s.at = "done" THEN s
  ELSE IF k = 0 THEN count_step(s)
  ELSE count_run(count_run(s, k - 1), k - 1)

\* QuantumSudokuGame.count_solutions: the search run to its return
count_solutions(board) ==
  count_run(count_call(board, <<>>), CountDoublings).value

RECURSIVE carve_keeping_every_removal(_, _, _, _)

\* create_puzzle's loop without "if solutions != 1: ... continue"
carve_keeping_every_removal(g, all_cells, i, removed) ==
  IF i > Len(all_cells) \/ removed >= cells_to_remove(g.difficulty) THEN g
  ELSE carve_keeping_every_removal([g EXCEPT !.board[all_cells[i]].value = 0],
                                   all_cells, i + 1, removed + 1)

RECURSIVE carve(_, _, _, _)

\* the loop "for row, col in all_cells" of create_puzzle from its i-th cell on
carve(g, all_cells, i, removed) ==
  IF i > Len(all_cells) \/ removed >= cells_to_remove(g.difficulty) THEN g
  ELSE
    LET p == all_cells[i]
        g0 == [g EXCEPT !.board[p].value = 0]
        \* the copy [[self.board[r][c].value ...]], as a table of its own
        board_copy == CHOOSE board \in {[q \in Pos |-> g0.board[q].value]} : board = board
    IN  IF g.difficulty # "hard" /\ count_solutions(board_copy) # 1
        THEN carve(g, all_cells, i + 1, removed)
        ELSE carve(g0, all_cells, i + 1, removed + 1)

\* create_puzzle locking every cell, without "if self.board[row][col].value != 0"
create_puzzle_locking_every_cell(g, all_cells) ==
  LET carved == carve(g, all_cells, 1, 0)
  IN  [carved EXCEPT !.board =
         [p \in Pos |-> [carved.board[p] EXCEPT !.locked = TRUE]]]

\* QuantumSudokuGame.create_puzzle; all_cells is the shuffled order
create_puzzle(g, all_cells) ==
  LET carved == carve(g, all_cells, 1, 0)
  IN  [carved EXCEPT !.board =
         [p \in Pos |-> IF carved.board[p].value # 0
                        THEN [carved.board[p] EXCEPT !.locked = TRUE]
                        ELSE carved.board[p]]]

\* random.sample(population, k) with the draws in Digits
sample(population, k) ==
  LET n == IF k < Cardinality(population) THEN k ELSE Cardinality(population)
  IN  {T \in SUBSET (population \cap Digits) : Cardinality(T) = n}

\* QuantumSudokuGame.create_entanglement: the set of its outcomes
create_entanglement(g, row, col) ==
  LET candidates == {p \in Pos : /\ (p[1] # row \/ p[2] # col)
                                 /\ is_quantum(g.board[p])
                                 /\ g.board[p].entangled_with = {}}
  IN  IF candidates = {} THEN {g}
      ELSE
        {LET group_id == Len(g.entanglement_groups) + 1
         IN  [g EXCEPT
               !.board[<<row, col>>].entanglement_group = group_id,
               !.board[other].entanglement_group = group_id,
               !.board[<<row, col>>].entangled_with = @ \cup {other},
               !.board[other].entangled_with = @ \cup {<<row, col>>},
               !.entanglement_groups = Append(@, <<<<row, col>>, other>>)]
         : other \in candidates}

\* the body of create_quantum_cells' loop for one chosen cell
convert_cell(g, p) ==
  LET value == g.board[p].value
      alternatives == {num \in 1..9 :
                         num # value /\ is_valid_move(g, p[1], p[2], num, FALSE)}
  IN  IF alternatives = {} THEN {g}
      ELSE UNION {
             LET g1 == [g EXCEPT !.board[p] = set_superposition(@, {value} \cup alts)]
             IN  {g1} \cup create_entanglement(g1, p[1], p[2])
             : alts \in UNION {sample(alternatives, k) :
                                k \in IF g.difficulty = "easy" THEN 1..2 ELSE 1..3}}

RECURSIVE convert_cells(_, _)

\* the loop "for row, col in quantum_cells" in every order of the cells
convert_cells(g, quantum_cells) ==
  IF quantum_cells = {} THEN {g}
  ELSE UNION {UNION {convert_cells(g1, quantum_cells \ {p}) : g1 \in convert_cell(g, p)}
              : p \in quantum_cells}

\* QuantumSudokuGame.create_quantum_cells: the set of its outcomes
create_quantum_cells(g, num) ==
  LET candidates == {p \in Pos : /\ ~g.board[p].locked
                                 /\ g.board[p].value # 0
                                 /\ ~is_quantum(g.board[p])}
      n == IF num < Cardinality(candidates) THEN num ELSE Cardinality(candidates)
  IN  UNION {convert_cells(g, quantum_cells)
             : quantum_cells \in {T \in SUBSET candidates : Cardinality(T) = n}}

\* the solved grid every game starts from (generate_solved_board draws nothing)
SolvedGame == generate_solved_board(NewGame("easy"))

\* QuantumSudokuGame.setup_game: the set of its outcomes
setup_game(g, all_cells) ==
  create_quantum_cells(
    create_puzzle([g EXCEPT !.board = SolvedGame.board], all_cells),
    num_quantum(g.difficulty))

\* "Handle entanglement": the loop over cell.entangled_with after the cell at
\* <<row, col>> collapsed; the set of the boards it can leave
handle_entanglement(board, row, col) ==
  LET cell == board[<<row, col>>]
      peers == {p \in cell.entangled_with : is_quantum(board[p])}
      options(p) == {o.cell : o \in
                      collapse(board[p],
                               IF cell.value \in board[p].superposition
                               THEN cell.value ELSE None)}
      choices == {f \in [peers -> UNION {options(p) : p \in peers}] :
                    \A p \in peers : f[p] \in options(p)}
  IN  {[p \in Pos |-> IF p \in peers THEN f[p] ELSE board[p]] : f \in choices}

\* QuantumSudokuGame.collapse_quantum_cell: the set of its outcomes
collapse_quantum_cell(g, row, col, value) ==
  LET cell == g.board[<<row, col>>]
  IN  IF ~is_quantum(cell) THEN {[g |-> g, ret |-> "False"]}
      ELSE UNION {
             IF ~o.ok THEN {[g |-> g, ret |-> "False"]}
             ELSE {[g |-> [g EXCEPT !.board = b], ret |-> "True"]
                   : b \in handle_entanglement([g.board EXCEPT ![<<row, col>>] = o.cell],
                                               row, col)}
             : o \in collapse(cell, value)}

\* QuantumSudokuGame.make_move: the set of its outcomes.  create_quantum_cell
\* is not a method of the class: the call raises AttributeError
make_move(g, row, col, value) ==
  LET cell == g.board[<<row, col>>]
  IN  IF cell.locked THEN {[g |-> g, ret |-> "False"]}
      ELSE IF cell.collapsed
      THEN IF cell.value = 0
           THEN IF is_valid_move(g, row, col, value, TRUE)
                THEN {[g |-> [g EXCEPT !.board[<<row, col>>].value = value],
                       ret |-> "True"]}
                ELSE {[g |-> [g EXCEPT !.player_mistakes = @ + 1], ret |-> "False"]}
           ELSE {[g |-> g, ret |-> "AttributeError"], [g |-> g, ret |-> "False"]}
      ELSE collapse_quantum_cell(g, row, col, value)

\* use_logic_move without its "if cell.locked: return False"
use_logic_move_ignoring_lock(g, row, col, value) ==
  LET cell == g.board[<<row, col>>]
      g1 == [g EXCEPT !.using_logic_move = TRUE]
      done(g2) == [g |-> [g2 EXCEPT !.using_logic_move = FALSE,
                                    !.logic_moves_remaining = @ - 1],
                   ret |-> "True"]
  IN  IF g.logic_moves_remaining <= 0 THEN {[g |-> g, ret |-> "False"]}
      ELSE IF cell.collapsed
      THEN IF cell.value = 0
           THEN {done([g1 EXCEPT !.board[<<row, col>>].value = v])
                 : v \in IF value # None THEN {value} ELSE Digits}
           ELSE UNION {
                  LET g2 == [g1 EXCEPT !.board[<<row, col>>] =
                               set_superposition(@, {cell.value} \cup alts)]
                  IN  {done(g3) : g3 \in {g2} \cup create_entanglement(g2, row, col)}
                  : alts \in UNION {sample((1..9) \ {cell.value}, k) : k \in 1..3}}
      ELSE {done([g1 EXCEPT !.board[<<row, col>>] = o.cell])
            : o \in collapse(cell, IF value # None /\ value \in cell.superposition
                                   THEN value ELSE None)}

\* use_logic_move forgetting "self.logic_moves_remaining -= 1"
use_logic_move_for_free(g, row, col, value) ==
  LET cell == g.board[<<row, col>>]
      g1 == [g EXCEPT !.using_logic_move = TRUE]
      done(g2) == [g |-> [g2 EXCEPT !.using_logic_move = FALSE], ret |-> "True"]
  IN  IF g.logic_moves_remaining <= 0 THEN {[g |-> g, ret |-> "False"]}
      ELSE IF cell.locked THEN {[g |-> g, ret |-> "False"]}
      ELSE IF cell.collapsed
      THEN IF cell.value = 0
           THEN {done([g1 EXCEPT !.board[<<row, col>>].value = v])
                 : v \in IF value # None THEN {value} ELSE Digits}
           ELSE UNION {
                  LET g2 == [g1 EXCEPT !.board[<<row, col>>] =
                               set_superposition(@, {cell.value} \cup alts)]
                  IN  {done(g3) : g3 \in {g2} \cup create_entanglement(g2, row, col)}
                  : alts \in UNION {sample((1..9) \ {cell.value}, k) : k \in 1..3}}
      ELSE {done([g1 EXCEPT !.board[<<row, col>>] = o.cell])
            : o \in collapse(cell, IF value # None /\ value \in cell.superposition
                                   THEN value ELSE None)}

\* use_logic_move placing a value in an empty cell only where is_valid_move
\* allows it
use_logic_move_validating(g, row, col, value) ==
  LET cell == g.board[<<row, col>>]
      g1 == [g EXCEPT !.using_logic_move = TRUE]
      done(g2) == [g |-> [g2 EXCEPT !.using_logic_move = FALSE,
                                    !.logic_moves_remaining = @ - 1],
                   ret |-> "True"]
  IN  IF g.logic_moves_remaining <= 0 THEN {[g |-> g, ret |-> "False"]}
      ELSE IF cell.locked THEN {[g |-> g, ret |-> "False"]}
      ELSE IF cell.collapsed
      THEN IF cell.value = 0
           THEN IF value # None /\ ~is_valid_move(g, row, col, value, TRUE)
                THEN {[g |-> g, ret |-> "False"]}
                ELSE {done([g1 EXCEPT !.board[<<row, col>>].value = v])
                      : v \in IF value # None THEN {value} ELSE Digits}
           ELSE UNION {
                  LET g2 == [g1 EXCEPT !.board[<<row, col>>] =
                               set_superposition(@, {cell.value} \cup alts)]
                  IN  {done(g3) : g3 \in {g2} \cup create_entanglement(g2, row, col)}
                  : alts \in UNION {sample((1..9) \ {cell.value}, k) : k \in 1..3}}
      ELSE {done([g1 EXCEPT !.board[<<row, col>>] = o.cell])
            : o \in collapse(cell, IF value # None /\ value \in cell.superposition
                                   THEN value ELSE None)}

\* QuantumSudokuGame.use_logic_move: the set of its outcomes
use_logic_move(g, row, col, value) ==
  LET cell == g.board[<<row, col>>]
      g1 == [g EXCEPT !.using_logic_move = TRUE]
      done(g2) == [g |-> [g2 EXCEPT !.using_logic_move = FALSE,
                                    !.logic_moves_remaining = @ - 1],
                   ret |-> "True"]
  IN  IF g.logic_moves_remaining <= 0 THEN {[g |-> g, ret |-> "False"]}
      ELSE IF cell.locked THEN {[g |-> g, ret |-> "False"]}
      ELSE IF cell.collapsed
      THEN IF cell.value = 0
           THEN {done([g1 EXCEPT !.board[<<row, col>>].value = v])
                 : v \in IF value # None THEN {value} ELSE Digits}
           ELSE UNION {
                  LET g2 == [g1 EXCEPT !.board[<<row, col>>] =
                               set_superposition(@, {cell.value} \cup alts)]
                  IN  {done(g3) : g3 \in {g2} \cup create_entanglement(g2, row, col)}
                  : alts \in UNION {sample((1..9) \ {cell.value}, k) : k \in 1..3}}
      ELSE {done([g1 EXCEPT !.board[<<row, col>>] = o.cell])
            : o \in collapse(cell, IF value # None /\ value \in cell.superposition
                                   THEN value ELSE None)}

\* QuantumSudokuGame.check_ai_moves
check_ai_moves(g) ==
  IF \E p \in Pos : /\ g.board[p].collapsed /\ g.board[p].value # 0
                    /\ ~g.board[p].locked
                    /\ ~is_valid_move(g, p[1], p[2], g.board[p].value, FALSE)
  THEN [g |-> [g EXCEPT !.ai_mistakes = @ + 1], ret |-> FALSE]
  ELSE [g |-> g, ret |-> TRUE]

\* is_board_solved checking the rows only
is_board_solved_by_rows(g) ==
  LET val(p) == g.board[p].value
  IN  \A row \in Rows :
        /\ \A col \in Rows : g.board[<<row, col>>].collapsed /\ val(<<row, col>>) # 0
        /\ Cardinality({val(<<row, col>>) : col \in Rows}) = 9

\* QuantumSudokuGame.is_board_solved
is_board_solved(g) ==
  LET val(p) == g.board[p].value
      boxes == {Box(r, c) : r \in {0, 3, 6}, c \in {0, 3, 6}}
  IN  /\ \A row \in Rows :
           /\ \A col \in Rows : g.board[<<row, col>>].collapsed /\ val(<<row, col>>) # 0
           /\ Cardinality({val(<<row, col>>) : col \in Rows}) = 9
      /\ \A col \in Rows : Cardinality({val(<<row, col>>) : row \in Rows}) = 9
      /\ \A b \in boxes : Cardinality({val(p) : p \in b}) = 9
      /\ Cardinality({val(<<i, i>>) : i \in Rows}) = 9
      /\ Cardinality({val(<<i, 8 - i>>) : i \in Rows}) = 9

\* the first loop of check_game_over
all_filled(g) ==
  \A p \in Pos : g.board[p].collapsed /\ g.board[p].value # 0

\* check_game_over giving the player the game on equal mistake counters
check_game_over_ties_to_player(g) ==
  IF ~all_filled(g) THEN g
  ELSE
    LET g0 == [g EXCEPT !.game_over = TRUE]
        player_correct == is_board_solved(g0)
        ai == check_ai_moves(g0)
        ai_correct == ai.ret
        g1 == ai.g
        set(w, m) == [g1 EXCEPT !.winner = w, !.message = m]
    IN  IF player_correct /\ ~ai_correct
        THEN set("Player", "You won! AI made mistakes.")
        ELSE IF ~player_correct /\ ai_correct
        THEN set("AI", "AI won! You made mistakes.")
        ELSE IF player_correct /\ ai_correct
        THEN IF g1.player_mistakes <= g1.ai_mistakes
             THEN set("Player", "You won! Made fewer mistakes than AI.")
             ELSE IF g1.player_mistakes > g1.ai_mistakes
             THEN set("AI", "AI won! Made fewer mistakes than you.")
             ELSE set("Draw", "Perfect match! It's a draw.")
        ELSE IF g1.player_mistakes <= g1.ai_mistakes
             THEN set("Player", "You won! Made fewer mistakes than AI.")
             ELSE IF g1.player_mistakes > g1.ai_mistakes
             THEN set("AI", "AI won! Made fewer mistakes than you.")
             ELSE set("Draw", "Both made same number of mistakes. It's a draw.")

\* QuantumSudokuGame.check_game_over
check_game_over(g) ==
  IF ~all_filled(g) THEN g
  ELSE
    LET g0 == [g EXCEPT !.game_over = TRUE]
        player_correct == is_board_solved(g0)
        ai == check_ai_moves(g0)
        ai_correct == ai.ret
        g1 == ai.g
        set(w, m) == [g1 EXCEPT !.winner = w, !.message = m]
    IN  IF player_correct /\ ~ai_correct
        THEN set("Player", "You won! AI made mistakes.")
        ELSE IF ~player_correct /\ ai_correct
        THEN set("AI", "AI won! You made mistakes.")
        ELSE IF player_correct /\ ai_correct
        THEN IF g1.player_mistakes < g1.ai_mistakes
             THEN set("Player", "You won! Made fewer mistakes than AI.")
             ELSE IF g1.player_mistakes > g1.ai_mistakes
             THEN set("AI", "AI won! Made fewer mistakes than you.")
             ELSE set("Draw", "Perfect match! It's a draw.")
        ELSE IF g1.player_mistakes < g1.ai_mistakes
             THEN set("Player", "You won! Made fewer mistakes than AI.")
             ELSE IF g1.player_mistakes > g1.ai_mistakes
             THEN set("AI", "AI won! Made fewer mistakes than you.")
             ELSE set("Draw", "Both made same number of mistakes. It's a draw.")

\* ai_move filling an empty cell before it looks for cells in superposition
ai_move_filling_first(g) ==
  LET quantum_cells == {p \in Pos : is_quantum(g.board[p])}
      empty_cells == {p \in Pos : g.board[p].collapsed /\ g.board[p].value = 0}
      finish(g2) == [g |-> check_game_over([g2 EXCEPT !.player_turn = TRUE]),
                     ret |-> "None"]
  IN  IF g.game_over THEN {[g |-> g, ret |-> "None"]}
      ELSE IF empty_cells # {}
      THEN UNION {
             LET valid_values == {num \in 1..9 : is_valid_move(g, p[1], p[2], num, FALSE)}
             IN  IF valid_values # {}
                 THEN {finish([g EXCEPT !.board[p].value = v]) : v \in valid_values}
                 ELSE {finish([g EXCEPT !.board[p].value = v, !.ai_mistakes = @ + 1])
                       : v \in Digits}
             : p \in empty_cells}
      ELSE IF quantum_cells # {}
      THEN UNION {
             LET cell == g.board[p]
                 valid_values == {value \in cell.superposition :
                                    is_valid_move(g, p[1], p[2], value, FALSE)}
                 collapsed == IF valid_values # {}
                              THEN UNION {collapse(cell, v) : v \in valid_values}
                              ELSE collapse(cell, None)
             IN  UNION {{finish([g EXCEPT !.board = b])
                         : b \in handle_entanglement([g.board EXCEPT ![p] = o.cell],
                                                     p[1], p[2])}
                        : o \in collapsed}
             : p \in quantum_cells}
      ELSE {finish(g)}

\* QuantumSudokuGame.ai_move: the set of its outcomes
ai_move(g) ==
  LET quantum_cells == {p \in Pos : is_quantum(g.board[p])}
      empty_cells == {p \in Pos : g.board[p].collapsed /\ g.board[p].value = 0}
      finish(g2) == [g |-> check_game_over([g2 EXCEPT !.player_turn = TRUE]),
                     ret |-> "None"]
  IN  IF g.game_over THEN {[g |-> g, ret |-> "None"]}
      ELSE IF quantum_cells # {}
      THEN UNION {
             LET cell == g.board[p]
                 valid_values == {value \in cell.superposition :
                                    is_valid_move(g, p[1], p[2], value, FALSE)}
                 collapsed == IF valid_values # {}
                              THEN UNION {collapse(cell, v) : v \in valid_values}
                              ELSE collapse(cell, None)
             IN  UNION {{finish([g EXCEPT !.board = b])
                         : b \in handle_entanglement([g.board EXCEPT ![p] = o.cell],
                                                     p[1], p[2])}
                        : o \in collapsed}
             : p \in quantum_cells}
      ELSE IF empty_cells # {}
      THEN UNION {
             LET valid_values == {num \in 1..9 : is_valid_move(g, p[1], p[2], num, FALSE)}
             IN  IF valid_values # {}
                 THEN {finish([g EXCEPT !.board[p].value = v]) : v \in valid_values}
                 ELSE {finish([g EXCEPT !.board[p].value = v, !.ai_mistakes = @ + 1])
                       : v \in Digits}
             : p \in empty_cells}
      ELSE {finish(g)}

\* QuantumSudokuUI.handle_give_up
handle_give_up(g) ==
  check_ai_moves([g EXCEPT !.game_over = TRUE, !.winner = "AI",
                           !.message = "You surrendered! AI wins."]).g


(***************************************************************************)
(* The session: one game, driven by calls of the engine's methods in any   *)
(* order, with any arguments.                                              *)
(***************************************************************************)
\* the orders random.shuffle(all_cells) gives create_puzzle, as far as the
\* loop is followed
Shuffles == {<<<<0, 0>>, <<0, 1>>>>}

\* the difficulties of the sessions followed (no command reads the field)
SessionDifficulties == {"medium"}

\* the cells the player's calls name: the cells carved and one given
Targets == {<<0, 0>>, <<0, 1>>, <<0, 2>>}

VARIABLES
  game,   \* the QuantumSudokuGame of the session
  pc,     \* "running", or "crashed" once a call has raised, or "ai_thinking"
          \* while the UI's ai_move is due; during construction, the method
          \* setup_game is about to call or is in
  frames  \* the activations of solve_board, innermost last

vars == <<game, pc, frames>>

\* the mistake counters stay within the bound of the model
Bounded(g) == g.player_mistakes <= MaxMistakes /\ g.ai_mistakes <= MaxMistakes

\* the logic moves used stay within the bound of the model
LogicBounded(g) == g.logic_moves_remaining >= 10 - MaxLogicMoves

\* QuantumSudokuGame(difficulty)
Init ==
  /\ \E difficulty \in SessionDifficulties, all_cells \in Shuffles :
       game \in setup_game(NewGame(difficulty), all_cells)
  /\ pc = "running"
  /\ frames = <<>>

\* an uncaught exception ends QuantumSudokuUI.run
After(ret) == IF ret = "AttributeError" THEN "crashed" ELSE "running"

MakeMove(row, col, value) ==
  /\ pc = "running"
  /\ \E o \in make_move(game, row, col, value) :
       /\ Bounded(o.g) /\ LogicBounded(o.g)
       /\ game' = o.g
       /\ pc' = After(o.ret)
  /\ UNCHANGED frames

UseLogicMove(row, col, value) ==
  /\ pc = "running"
  /\ \E o \in use_logic_move(game, row, col, value) :
       /\ Bounded(o.g) /\ LogicBounded(o.g)
       /\ game' = o.g
       /\ pc' = After(o.ret)
  /\ UNCHANGED frames

AiMove ==
  /\ pc = "running"
  /\ \E o \in ai_move(game) :
       /\ Bounded(o.g) /\ LogicBounded(o.g)
       /\ game' = o.g
       /\ pc' = After(o.ret)
  /\ UNCHANGED frames

CheckGameOver ==
  /\ pc = "running"
  /\ Bounded(check_game_over(game))
  /\ game' = check_game_over(game)
  /\ UNCHANGED <<pc, frames>>

HandleGiveUp ==
  /\ pc = "running"
  /\ Bounded(handle_give_up(game))
  /\ game' = handle_give_up(game)
  /\ UNCHANGED <<pc, frames>>

PlayerMoves == \E p \in Targets, value \in Digits : MakeMove(p[1], p[2], value)

LogicMoves ==
  \E p \in Targets, value \in Digits \cup {None} : UseLogicMove(p[1], p[2], value)

Next == PlayerMoves \/ LogicMoves \/ AiMove \/ CheckGameOver \/ HandleGiveUp

\* every command of the session, in any order
Spec == Init /\ [][Next]_vars

\* the session in which surrender is not used
NextNoSurrender == PlayerMoves \/ LogicMoves \/ AiMove \/ CheckGameOver

SpecNoSurrender == Init /\ [][NextNoSurrender]_vars

\* a logic move, however many were used before
SpendLogicMove(row, col, value) ==
  /\ pc = "running"
  /\ \E o \in use_logic_move(game, row, col, value) :
       /\ game' = o.g
       /\ pc' = After(o.ret)
  /\ UNCHANGED frames

NextBudget ==
  \E p \in Targets, value \in Digits \cup {None} : SpendLogicMove(p[1], p[2], value)

\* the session in which the player spends the logic moves to the last
SpecBudget == Init /\ [][NextBudget]_vars

\* a shuffled order that empties a cell of the main diagonal together with
\* the cells holding 2 in its row and box and in its column: 2 is then kept
\* from <<0, 0>> by the diagonal alone
DiagonalShuffle == <<<<0, 0>>, <<0, 1>>, <<3, 0>>>>

DiagonalTargets == {DiagonalShuffle[i] : i \in DOMAIN DiagonalShuffle}

\* the cell the logic moves of that session name
DiagonalLogicTargets == {<<0, 1>>}

InitDiagonal ==
  /\ \E difficulty \in SessionDifficulties :
       game \in setup_game(NewGame(difficulty), DiagonalShuffle)
  /\ pc = "running"
  /\ frames = <<>>

NextDiagonal ==
  \/ \E p \in DiagonalTargets, value \in Digits : MakeMove(p[1], p[2], value)
  \/ \E p \in DiagonalLogicTargets, value \in Digits : UseLogicMove(p[1], p[2], value)

\* the player's moves on a grid with a cell of the main diagonal to fill
SpecDiagonal == InitDiagonal /\ [][NextDiagonal]_vars

\* a logic move with no value named (handle_logic_move with no number chosen),
\* as long as no more than MaxConversions were used
ConvertOrCollapse(row, col) ==
  /\ pc = "running"
  /\ \E o \in use_logic_move(game, row, col, None) :
       /\ o.g.logic_moves_remaining >= 10 - MaxConversions
       /\ game' = o.g
       /\ pc' = After(o.ret)
  /\ UNCHANGED frames

NextEntangle ==
  \/ \E p \in DiagonalTargets, value \in Digits : MakeMove(p[1], p[2], value)
  \/ \E p \in DiagonalTargets : ConvertOrCollapse(p[1], p[2])

\* the player fills three cells and turns them into superposed cells, collapses
\* them and turns them again
SpecEntangle == InitDiagonal /\ [][NextEntangle]_vars

(***************************************************************************)
(* The session as QuantumSudokuUI drives it.  pc is "running" while the UI *)
(* takes the player's events and "ai_thinking" from an accepted move on a  *)
(* session that is not over to the ai_move of update.  The number buttons  *)
(* and a click on the board select any number and any cell before the      *)
(* logic-move button is clicked, so the selection is an input of the       *)
(* actions.                                                                *)
(***************************************************************************)
\* the cells the player clicks: the cells carved and one given
UITargets == DiagonalTargets \cup {<<0, 2>>}

\* the cells the logic moves of that play name
UILogicTargets == {<<0, 0>>, <<0, 1>>}

\* the end of handle_board_click and handle_logic_move after a call that
\* returned ret and left g
Handled(g, ret) ==
  IF ret = "True"
  THEN LET checked == check_game_over(g)
       IN  /\ Bounded(checked)
           /\ game' = checked
           /\ pc' = IF checked.game_over THEN "running" ELSE "ai_thinking"
  ELSE /\ game' = g
       /\ pc' = After(ret)

\* QuantumSudokuUI.handle_board_click on the cell with a number selected
HandleBoardClick(row, col, value) ==
  /\ pc = "running"
  /\ game.player_turn /\ ~game.game_over
  /\ ~game.board[<<row, col>>].locked
  /\ \E o \in make_move(game, row, col, value) :
       Bounded(o.g) /\ Handled(o.g, o.ret)
  /\ UNCHANGED frames

\* QuantumSudokuUI.handle_logic_move with the cell and a number selected
HandleLogicMove(row, col, value) ==
  /\ pc = "running"
  /\ game.player_turn
  /\ game.logic_moves_remaining > 0
  /\ \E o \in use_logic_move(game, row, col, value) :
       LogicBounded(o.g) /\ Handled(o.g, o.ret)
  /\ UNCHANGED frames

\* QuantumSudokuUI.update with ai_thinking set and the delay over
Update ==
  /\ pc = "ai_thinking"
  /\ ~game.game_over
  /\ \E o \in ai_move(game) :
       /\ Bounded(o.g)
       /\ game' = o.g
  /\ pc' = "running"
  /\ UNCHANGED frames

NextUI ==
  \/ \E p \in UITargets, value \in Digits : HandleBoardClick(p[1], p[2], value)
  \/ \E p \in UILogicTargets, value \in Digits : HandleLogicMove(p[1], p[2], value)
  \/ HandleGiveUp
  \/ Update

\* the play QuantumSudokuUI allows on a grid with three cells to fill
SpecUI == InitDiagonal /\ [][NextUI]_vars

(***************************************************************************)
(* The construction QuantumSudokuGame(difficulty), method by method, with  *)
(* solve_board's search step by step.                                      *)
(***************************************************************************)
\* rectangles of the solved grid holding 1 2 over 2 1 and 4 5 over 5 4: with
\* the four cells of one removed the rows, columns and boxes allow two
\* completions (which for the first differ on the main diagonal)
Rectangles ==
  {{<<0, 0>>, <<0, 1>>, <<3, 0>>, <<3, 1>>}, {<<0, 3>>, <<0, 4>>, <<7, 3>>, <<7, 4>>}}

\* the orders random.shuffle(all_cells) gives create_puzzle, as far as the
\* loop is followed: the cells of a rectangle in every order
SetupShuffles ==
  UNION {{all_cells \in [1..4 -> rectangle] :
            \A i, j \in 1..4 : i # j => all_cells[i] # all_cells[j]}
         : rectangle \in Rectangles}

\* an order of all 81 cells: 49 cells whose removal leaves the rows, columns
\* and boxes one completion, then the 32 cells none of which can follow them
StubbornOrder ==
  <<
    <<0, 1>>, <<0, 3>>, <<0, 4>>, <<0, 5>>, <<0, 8>>, <<1, 3>>,
    <<1, 5>>, <<1, 6>>, <<1, 7>>, <<2, 0>>, <<2, 2>>, <<2, 3>>,
    <<2, 4>>, <<2, 5>>, <<2, 6>>, <<2, 7>>, <<2, 8>>, <<3, 0>>,
    <<3, 2>>, <<3, 5>>, <<3, 6>>, <<3, 7>>, <<3, 8>>, <<4, 3>>,
    <<4, 6>>, <<5, 0>>, <<5, 1>>, <<5, 2>>, <<5, 4>>, <<5, 6>>,
    <<5, 7>>, <<5, 8>>, <<6, 0>>, <<6, 1>>, <<6, 3>>, <<6, 5>>,
    <<7, 0>>, <<7, 2>>, <<7, 3>>, <<7, 5>>, <<7, 6>>, <<7, 8>>,
    <<8, 1>>, <<8, 3>>, <<8, 4>>, <<8, 5>>, <<8, 6>>, <<8, 7>>,
    <<8, 8>>, <<0, 0>>, <<0, 2>>, <<0, 6>>, <<0, 7>>, <<1, 0>>,
    <<1, 1>>, <<1, 2>>, <<1, 4>>, <<1, 8>>, <<2, 1>>, <<3, 1>>,
    <<3, 3>>, <<3, 4>>, <<4, 0>>, <<4, 1>>, <<4, 2>>, <<4, 4>>,
    <<4, 5>>, <<4, 7>>, <<4, 8>>, <<5, 3>>, <<5, 5>>, <<6, 2>>,
    <<6, 4>>, <<6, 6>>, <<6, 7>>, <<6, 8>>, <<7, 1>>, <<7, 4>>,
    <<7, 7>>, <<8, 0>>, <<8, 2>>
  >>

\* the orders of all 81 cells random.shuffle(all_cells) is followed on
FullShuffles == {StubbornOrder}

InitSetup ==
  /\ \E difficulty \in Difficulties : game = NewGame(difficulty)
  /\ pc = "generate_solved_board"
  /\ frames = <<>>

\* where setup_game stands after solve_board's search s has taken a step
Searched(s) ==
  /\ game' = s.g
  /\ frames' = s.frames
  /\ pc' = IF s.ret = "running" THEN "solve_board" ELSE "create_puzzle"

\* generate_solved_board: the reset of the board and the call of solve_board
GenerateSolvedBoard ==
  /\ pc = "generate_solved_board"
  /\ Searched(solve_call([game EXCEPT !.board = FreshBoard], <<>>))

\* a step of solve_board's search
SolveStep ==
  /\ pc = "solve_board"
  /\ Searched(solve_step([g |-> game, frames |-> frames, ret |-> "running"]))

CreatePuzzle ==
  /\ pc = "create_puzzle"
  /\ \E all_cells \in SetupShuffles : game' = create_puzzle(game, all_cells)
  /\ pc' = "create_quantum_cells"
  /\ UNCHANGED frames

CreateQuantumCells ==
  /\ pc = "create_quantum_cells"
  /\ game' \in create_quantum_cells(game, num_quantum(game.difficulty))
  /\ pc' = "running"
  /\ UNCHANGED frames

NextSetup == GenerateSolvedBoard \/ SolveStep \/ CreatePuzzle \/ CreateQuantumCells

SpecSetup == InitSetup /\ [][NextSetup]_vars

\* generate_solved_board is running
Searching == pc \in {"generate_solved_board", "solve_board"}

\* generate_solved_board runs on: no statement of it waits for anything.  This
\* is weak fairness of its steps, WF_vars(GenerateSolvedBoard \/ SolveStep),
\* written out with "Searching" for "a step is enabled": a search that has not
\* returned always has a next step, and the step changes frames.
SpecSetupFair ==
  /\ SpecSetup
  /\ \/ []<>(~Searching)
     \/ []<><<GenerateSolvedBoard \/ SolveStep>>_vars

(***************************************************************************)
(* The calls a state offers, for the contracts of the methods: a contract  *)
(* is stated of every outcome of every call in every reachable state.      *)
(***************************************************************************)
make_moves(g) ==
  UNION {make_move(g, p[1], p[2], value) : p \in Targets, value \in Digits}

logic_moves(g) ==
  UNION {use_logic_move(g, p[1], p[2], value) : p \in Targets, value \in Digits \cup {None}}

\* the games the mutating commands can leave
Mutated(g) == {o.g : o \in make_moves(g) \cup logic_moves(g) \cup ai_move(g)}

\* the games any command can leave
AnyCall(g) == Mutated(g) \cup {check_game_over(g), handle_give_up(g)}

(***************************************************************************)
(* The cells.                                                              *)
(***************************************************************************)
\* C1: in every reachable state each of the 81 cells is either resolved
\* (collapsed) with an empty candidate list, or unresolved with at least two
\* distinct candidates and value 0; none is resolved while carrying candidates
C1_CellsWellFormed ==
  \A p \in Pos :
    LET cell == game.board[p]
    IN  \/ cell.collapsed /\ cell.superposition = {}
        \/ ~cell.collapsed /\ Cardinality(cell.superposition) >= 2 /\ cell.value = 0

\* a cell is in superposition while a cell that was entangled has collapsed
C1_Witness ==
  /\ \E p \in Pos : is_quantum(game.board[p])
  /\ \E p \in Pos : game.board[p].collapsed /\ game.board[p].entangled_with # {}

\* the cells create_puzzle left filled, and so locked
Givens ==
  {p \in Pos : \A all_cells \in Shuffles : \A i \in DOMAIN all_cells : all_cells[i] # p}

\* C2: after setup, whatever calls of make_move, use_logic_move and ai_move
\* are made, every locked cell keeps its original nonzero value, stays locked
\* and resolved with no candidates, and has no entanglement group or peer
C2_LockedCellsImmutable ==
  /\ \A p \in Givens : game.board[p].locked
  /\ \A p \in Pos :
       game.board[p].locked =>
         /\ SolvedGame.board[p].value # 0
         /\ game.board[p] =
              [value |-> SolvedGame.board[p].value, superposition |-> {},
               collapsed |-> TRUE, entangled_with |-> {},
               entanglement_group |-> None, locked |-> TRUE]

\* commands have been applied to the locked cell among the targets, and to
\* the other cells: a logic move was spent and a mistake was counted
C2_Witness ==
  /\ game.board[<<0, 2>>].locked
  /\ game.logic_moves_remaining < 10
  /\ game.player_mistakes > 0
  /\ \E o \in make_moves(game) \cup logic_moves(game) : o.ret = "False" /\ o.g = game

(***************************************************************************)
(* Entanglement.                                                           *)
(***************************************************************************)
\* C3: whenever make_move or use_logic_move on a superposed cell, or ai_move,
\* collapses a superposed cell that has a still-superposed entangled peer,
\* then on return both are resolved, and the peer has the cell's value if that
\* value was among the peer's candidates
C3_CollapsePropagates ==
  LET propagated(g2, p) ==
        \A q \in game.board[p].entangled_with :
          is_quantum(game.board[q]) =>
            /\ g2.board[p].collapsed /\ g2.board[q].collapsed
            /\ g2.board[p].value \in game.board[q].superposition =>
                 g2.board[q].value = g2.board[p].value
  IN  /\ \A p \in Targets, value \in Digits \cup {None} :
           is_quantum(game.board[p]) =>
             \A o \in make_move(game, p[1], p[2], value)
                        \cup use_logic_move(game, p[1], p[2], value) :
               o.g.board[p].collapsed => propagated(o.g, p)
      /\ \A o \in ai_move(game) :
           (~game.game_over /\ \E p \in Pos : is_quantum(game.board[p])) =>
             \E p \in Pos : /\ is_quantum(game.board[p])
                            /\ o.g.board[p].collapsed
                            /\ propagated(o.g, p)

(***************************************************************************)
(* The end of the session.                                                 *)
(***************************************************************************)
\* C4: once game_over is true, make_move, use_logic_move and ai_move leave the
\* grid, the entanglement table, both mistake counters and the logic-move
\* budget unchanged
C4_TerminalSessionIsFrozen ==
  game.game_over =>
    \A g2 \in Mutated(game) :
      /\ g2.board = game.board
      /\ g2.entanglement_groups = game.entanglement_groups
      /\ g2.player_mistakes = game.player_mistakes
      /\ g2.ai_mistakes = game.ai_mistakes
      /\ g2.logic_moves_remaining = game.logic_moves_remaining

\* C5: without surrender, no reachable state has game_over true while some
\* cell is empty or in superposition, and after an outcome evaluation
\* game_over is true if and only if all 81 cells are resolved and nonzero
C5_TerminalIffAllFilled ==
  /\ game.game_over => all_filled(game)
  /\ check_game_over(game).game_over <=> all_filled(check_game_over(game))

\* C6: from the first state in which game_over is true, no command (move,
\* logic move, AI turn, outcome evaluation, surrender) changes the winner or
\* the message
C6_WinnerComputedOnce ==
  game.game_over =>
    \A g2 \in AnyCall(game) : g2.winner = game.winner /\ g2.message = game.message

\* C7: after an accepted player move (make_move or use_logic_move returning
\* True) that does not end the game the turn is the AI's (player_turn is
\* false), and ai_move hands the turn back to the player
C7_TurnsAlternate ==
  /\ \A o \in make_moves(game) \cup logic_moves(game) :
       (o.ret = "True" /\ ~check_game_over(o.g).game_over) => ~o.g.player_turn
  /\ \A o \in ai_move(game) : ~game.game_over => o.g.player_turn

(***************************************************************************)
(* The player's commands.                                                  *)
(***************************************************************************)
\* C8: the logic-move budget starts at 10, never increases, never goes below
\* 0, decreases by exactly 1 on each successful use_logic_move and by 0 on
\* each failed one; at budget 0 use_logic_move always fails and changes
\* nothing in the session
C8_LogicBudget ==
  /\ game.logic_moves_remaining = 10
  /\ [](/\ game.logic_moves_remaining \in 0..10
        /\ \A g2 \in AnyCall(game) :
             g2.logic_moves_remaining <= game.logic_moves_remaining
        /\ \A o \in logic_moves(game) :
             /\ o.ret \in {"True", "False"}
             /\ o.ret = "True" =>
                  o.g.logic_moves_remaining = game.logic_moves_remaining - 1
             /\ o.ret = "False" =>
                  o.g.logic_moves_remaining = game.logic_moves_remaining
             /\ game.logic_moves_remaining = 0 => o.ret = "False" /\ o.g = game)

\* the budget is spent, with a cell left in superposition and one filled
C8_Witness ==
  /\ game.logic_moves_remaining = 0
  /\ \E p \in Targets : is_quantum(game.board[p])
  /\ \E p \in Targets : ~game.board[p].locked /\ game.board[p].collapsed

\* C9: make_move(row, col, v) on an unlocked, resolved, empty cell sets the
\* cell to v and returns success if and only if no other resolved cell of its
\* row, column, box or diagonal (when it lies on one) has value v and no
\* superposed cell of that scope has v among its candidates; otherwise it
\* returns failure, leaves the grid unchanged and adds exactly 1 to
\* player_mistakes
C9_MakeMoveOnEmptyCell ==
  \A p \in Pos, v \in Digits :
    LET cell == game.board[p]
        scope == {q \in Pos :
                    /\ q # p
                    /\ \/ q[1] = p[1]
                       \/ q[2] = p[2]
                       \/ q[1] \div 3 = p[1] \div 3 /\ q[2] \div 3 = p[2] \div 3
                       \/ p[1] = p[2] /\ q[1] = q[2]
                       \/ p[1] + p[2] = 8 /\ q[1] + q[2] = 8}
        legal == \A q \in scope :
                   /\ ~(game.board[q].collapsed /\ game.board[q].value = v)
                   /\ ~(~game.board[q].collapsed /\ v \in game.board[q].superposition)
    IN  (~cell.locked /\ cell.collapsed /\ cell.value = 0) =>
          make_move(game, p[1], p[2], v) =
            IF legal
            THEN {[g |-> [game EXCEPT !.board[p].value = v], ret |-> "True"]}
            ELSE {[g |-> [game EXCEPT !.player_mistakes = @ + 1], ret |-> "False"]}

\* a mistake has been counted, and on the empty cell of the diagonal one
\* value is refused for the diagonal alone, another for the candidates of a
\* cell in superposition alone
C9_Witness ==
  LET cell == game.board[<<0, 0>>]
      refused(v) == \E o \in make_move(game, 0, 0, v) : o.ret = "False"
  IN  /\ game.player_mistakes > 0
      /\ ~cell.locked /\ cell.collapsed /\ cell.value = 0
      /\ \E v \in Digits :
           /\ refused(v)
           /\ is_valid_move(game, 0, 0, v, FALSE)
      /\ \E v \in Digits :
           /\ refused(v)
           /\ \A q \in Pos \ {<<0, 0>>} :
                (q[1] = 0 \/ q[2] = 0 \/ q \in Box(0, 0)) =>
                  ~Clash(game.board[q], v, TRUE)

\* C10: make_move on an unlocked, resolved, filled cell has exactly two
\* outcomes: the cell becomes superposed and success is returned, or the
\* move is rejected with the session unchanged; it never raises
C10_MakeMoveOnFilledCell ==
  \A p \in Targets, v \in Digits :
    LET cell == game.board[p]
    IN  (~cell.locked /\ cell.collapsed /\ cell.value # 0) =>
          \A o \in make_move(game, p[1], p[2], v) :
            \/ o.ret = "True" /\ is_quantum(o.g.board[p])
            \/ o.ret = "False" /\ o.g = game

(***************************************************************************)
(* The outcome.                                                            *)
(***************************************************************************)
\* C11: when outcome evaluation finds the board full, the winner is Player if
\* only player_correct holds, AI if only ai_correct holds, and otherwise
\* Player, AI or Draw as player_mistakes is less than, greater than or equal
\* to ai_mistakes, the counters being those recorded before the evaluation
C11_WinnerPrecedence ==
  all_filled(game) =>
    LET player_correct == is_board_solved(game)
        ai_correct == check_ai_moves(game).ret
    IN  check_game_over(game).winner =
          IF player_correct /\ ~ai_correct THEN "Player"
          ELSE IF ~player_correct /\ ai_correct THEN "AI"
          ELSE IF game.player_mistakes < game.ai_mistakes THEN "Player"
          ELSE IF game.player_mistakes > game.ai_mistakes THEN "AI"
          ELSE "Draw"

(***************************************************************************)
(* The construction of the puzzle.                                         *)
(***************************************************************************)
\* C12: when a new game has been set up, exactly the configured number of
\* cells are in superposition: 5 for easy, 10 for medium, 15 for hard
C12_QuantumCellCount ==
  pc = "running" =>
    Cardinality({p \in Pos : is_quantum(game.board[p])}) = num_quantum(game.difficulty)

\* C13: create_puzzle removes exactly the difficulty's target number of cells
\* (easy 40, medium 50, hard 60), leaving exactly 41, 31 or 21 nonzero cells
C13_PuzzleSize ==
  pc = "create_puzzle" =>
    \A all_cells \in FullShuffles :
      LET puzzle == create_puzzle(game, all_cells)
      IN  Cardinality({p \in Pos : puzzle.board[p].value # 0})
            = 81 - cells_to_remove(game.difficulty)

\* the rows, columns and boxes of the grid and its two diagonals
Lines ==
  {{<<r, c>> : c \in Rows} : r \in Rows}
    \cup {{<<r, c>> : r \in Rows} : c \in Rows}
    \cup {Box(r, c) : r \in {0, 3, 6}, c \in {0, 3, 6}}
    \cup {{<<i, i>> : i \in Rows}, {<<i, 8 - i>> : i \in Rows}}

\* the ways to fill the empty cells of a grid of values so that every row,
\* column and box and both diagonals hold nine different values of 1..9
Completions(values) ==
  LET empty == {p \in Pos : values[p] = 0}
  IN  {filling \in [empty -> 1..9] :
         \A line \in Lines :
           {IF p \in empty THEN filling[p] ELSE values[p] : p \in line} = 1..9}

\* C14: for easy and medium every removal create_puzzle accepts leaves a grid
\* with exactly one completion under the rows, columns, boxes and both
\* diagonals, so the givens have exactly one solution; a removal that would
\* allow a second one is undone and the original value restored
C14_UniqueCompletion ==
  (pc = "create_quantum_cells" /\ game.difficulty # "hard") =>
    /\ LET solved == SolvedGame.board
       IN  \A p \in Pos :
             game.board[p].value # 0 => game.board[p].value = solved[p].value
    /\ Cardinality(Completions([p \in Pos |-> game.board[p].value])) = 1

\* a puzzle of easy or medium with three cells of a rectangle removed and the
\* removal of the fourth undone
C14_Witness ==
  /\ pc = "create_quantum_cells" /\ game.difficulty # "hard"
  /\ \E rectangle \in Rectangles :
       Cardinality({p \in rectangle : game.board[p].value = 0}) = 3

\* C15: generate_solved_board always terminates, and when it has, all 81 cells
\* are filled and every row, column and box, the main diagonal and the
\* anti-diagonal hold each of 1..9 exactly once
C15_SolvedBoardGenerated ==
  /\ <>(pc = "create_puzzle")
  /\ [](pc = "create_puzzle" =>
          /\ \A p \in Pos : game.board[p].value \in 1..9
          /\ \A line \in Lines : {game.board[p].value : p \in line} = 1..9)

\* solve_board's outermost activation has returned and no cell is left empty
C15_Witness ==
  /\ pc = "create_puzzle" /\ frames = <<>>
  /\ \A p \in Pos : game.board[p].value # 0

(***************************************************************************)
(* Entanglement.                                                           *)
(***************************************************************************)
\* C16: in every reachable state, for every group id in the entanglement
\* table and every member the table lists for it, the member's
\* entanglement_group is that id and its peer list holds every other member
\* of the group: membership is symmetric and a cell is in at most one group
C16_GroupsSymmetric ==
  \A group_id \in DOMAIN game.entanglement_groups :
    LET members == {game.entanglement_groups[group_id][k]
                      : k \in DOMAIN game.entanglement_groups[group_id]}
    IN  \A m \in members :
          /\ game.board[m].entanglement_group = group_id
          /\ members \ {m} \subseteq game.board[m].entangled_with

\* C17: entanglement groups are created only during setup: afterwards no
\* make_move, use_logic_move or ai_move adds a group, changes the members of a
\* group, or changes any cell's entanglement_group or peer list
C17_GroupsFixedAfterSetup ==
  pc = "running" =>
    \A g2 \in Mutated(game) :
      /\ g2.entanglement_groups = game.entanglement_groups
      /\ \A p \in Pos :
           /\ g2.board[p].entanglement_group = game.board[p].entanglement_group
           /\ g2.board[p].entangled_with = game.board[p].entangled_with

(***************************************************************************)
(* Rejected calls.                                                         *)
(***************************************************************************)
\* C18: collapse_quantum_cell on a cell that is not in superposition returns
\* failure and leaves the whole grid unchanged; a collapse with a chosen value
\* that is not among the cell's candidates fails with no change of state
\* (stated of the cells the session names: the cells to fill and a given)
C18_CollapseRejected ==
  pc = "running" =>
    \A p \in Targets, value \in Digits \cup {None} :
      LET cell == game.board[p]
      IN  (\/ ~is_quantum(cell)
           \/ value # None /\ value \notin cell.superposition) =>
            collapse_quantum_cell(game, p[1], p[2], value)
              = {[g |-> game, ret |-> "False"]}

\* a superposed cell entangled with another superposed cell, and a value that
\* is none of its candidates
C18_Witness ==
  /\ pc = "running"
  /\ \E p \in Pos, value \in Digits :
       /\ is_quantum(game.board[p])
       /\ value \notin game.board[p].superposition
       /\ \E other \in game.board[p].entangled_with : is_quantum(game.board[other])

\* C19: make_move or use_logic_move on a locked cell returns failure and
\* leaves the entire session unchanged (stated of the cells the session names:
\* the locked cells all have the form C2 states)
C19_LockedCellRejected ==
  pc = "running" =>
    \A p \in Targets :
      game.board[p].locked =>
        /\ \A value \in Digits :
             make_move(game, p[1], p[2], value) = {[g |-> game, ret |-> "False"]}
        /\ \A value \in Digits \cup {None} :
             use_logic_move(game, p[1], p[2], value) = {[g |-> game, ret |-> "False"]}

\* a session with logic moves left, a cell in superposition and a cell still
\* empty, which has a locked cell to call the methods on
C19_Witness ==
  /\ pc = "running"
  /\ game.logic_moves_remaining \in 1..9
  /\ \E p \in Targets : game.board[p].locked
  /\ \E p \in Pos : is_quantum(game.board[p])
  /\ \E p \in Pos : game.board[p].collapsed /\ game.board[p].value = 0

\* value arguments outside 1..9
OutOfRange == {0, 10}

\* C20: make_move and use_logic_move with a value outside 1..9 are rejected
\* and leave the session unchanged, so every cell's value is always in 0..9
C20_OutOfRangeRejected ==
  pc = "running" =>
    /\ \A p \in Pos : game.board[p].value \in 0..9
    /\ \A p \in Targets, value \in OutOfRange :
         \A o \in make_move(game, p[1], p[2], value)
                   \cup use_logic_move(game, p[1], p[2], value) :
           /\ o.ret = "False" /\ o.g = game
           /\ \A q \in Pos : o.g.board[q].value \in 0..9

(***************************************************************************)
(* The rule predicate.                                                     *)
(***************************************************************************)
\* the other cells is_valid_move(row, col, ...) is to look at: the row, the
\* column and the box of the cell, the main diagonal if row = col and the
\* anti-diagonal if row + col = 8
Scope(p) ==
  {q \in Pos :
     /\ q # p
     /\ \/ q[1] = p[1]
        \/ q[2] = p[2]
        \/ q[1] \div 3 = p[1] \div 3 /\ q[2] \div 3 = p[2] \div 3
        \/ p[1] = p[2] /\ q[1] = q[2]
        \/ p[1] + p[2] = 8 /\ q[1] + q[2] = 8}

\* C21: is_valid_move(row, col, num, check_quantum) returns false exactly when
\* some other cell of the target's row, column, box, main diagonal (only if
\* row = col) or anti-diagonal (only if row + col = 8) is resolved with value
\* num or (only when check_quantum) is in superposition with num among its
\* candidates, and true otherwise, in every state in which it is called
C21_IsValidMoveExact ==
  \A p \in Pos, num \in 1..9, check_quantum \in BOOLEAN :
    is_valid_move(game, p[1], p[2], num, check_quantum)
      <=> ~\E q \in Scope(p) :
             LET other == game.board[q]
             IN  \/ other.collapsed /\ other.value = num
                 \/ /\ check_quantum
                    /\ ~other.collapsed /\ other.superposition # {}
                    /\ num \in other.superposition

\* a value is kept from a cell by the candidates of a superposed cell alone,
\* and a value is kept from a cell of a diagonal by the diagonal alone
C21_Witness ==
  /\ \E p \in Pos, num \in 1..9 :
       /\ is_valid_move(game, p[1], p[2], num, FALSE)
       /\ ~is_valid_move(game, p[1], p[2], num, TRUE)
  /\ \E p \in Pos, num \in 1..9 :
       /\ ~is_valid_move(game, p[1], p[2], num, FALSE)
       /\ is_valid_move_without_diagonals(game, p[1], p[2], num, FALSE)

(***************************************************************************)
(* The outcome.                                                            *)
(***************************************************************************)
\* every cell is resolved and nonzero, and every row, column and box and both
\* diagonals hold each of 1..9
FullAndValid(g) ==
  /\ \A p \in Pos : g.board[p].collapsed /\ g.board[p].value # 0
  /\ \A line \in Lines : {g.board[p].value : p \in line} = 1..9

\* C22: if the board is full with every row, column, box and both diagonals
\* valid and the player's and the AI's mistake counters are equal, the
\* outcome evaluation sets winner to Draw
C22_EqualMistakesDraw ==
  (pc = "running" /\ FullAndValid(game) /\ game.player_mistakes = game.ai_mistakes)
    => LET evaluated == check_game_over(game)
       IN  evaluated.game_over /\ evaluated.winner = "Draw"

\* the outcome has been evaluated on a full valid board after a mistake each
C22_Witness ==
  /\ pc = "running" /\ FullAndValid(game)
  /\ game.player_mistakes = game.ai_mistakes /\ game.ai_mistakes > 0
  /\ game.game_over /\ game.winner = "Draw"

(***************************************************************************)
(* The solution counter.                                                   *)
(***************************************************************************)
\* the lines is_valid_in_board knows: rows, columns and boxes
PlainLines ==
  {{<<r, c>> : c \in Rows} : r \in Rows}
    \cup {{<<r, c>> : r \in Rows} : c \in Rows}
    \cup {Box(r, c) : r \in {0, 3, 6}, c \in {0, 3, 6}}

\* the ways to fill the empty cells of a grid of values so that every row,
\* column and box holds each of 1..9 (an empty cell can only take a digit
\* that some row lacks)
PlainCompletions(values) ==
  LET empty == {p \in Pos : values[p] = 0}
      lacking == {n \in 1..9 : \E r \in Rows : \A c \in Rows : values[<<r, c>>] # n}
  IN  {filling \in [empty -> lacking] :
         \A line \in PlainLines :
           {IF p \in empty THEN filling[p] ELSE values[p] : p \in line} = 1..9}

\* cells of the solved grid holding 2, 4 and 7: with the seven removed the
\* grid has three completions, with any six of them at most two
CountedCells ==
  {<<4, 4>>, <<4, 5>>, <<4, 8>>, <<5, 5>>, <<5, 8>>, <<7, 4>>, <<7, 5>>}

\* C23: count_solutions is capped at 2: for every value grid it returns the
\* number of completions if that number is 0 or 1 and exactly 2 otherwise; it
\* never returns a value greater than 2
C23_CountCapped ==
  pc = "create_puzzle" =>
    \A removed \in SUBSET CountedCells :
      LET board_copy == CHOOSE board \in {[p \in Pos |-> IF p \in removed THEN 0
                                                        ELSE game.board[p].value]} :
                          board = board
          completions == Cardinality(PlainCompletions(board_copy))
      IN  count_solutions(board_copy) = IF completions > 1 THEN 2 ELSE completions

\* C24: on every full board reachable from a new game is_board_solved and
\* check_ai_moves return the same truth value, so check_game_over never takes
\* its player-only or AI-only branch: the winner is decided by comparing the
\* mistake counters
C24_CorrectnessChecksAgree ==
  (pc = "running" /\ all_filled(game)) =>
    /\ is_board_solved(game) = check_ai_moves(game).ret
    /\ LET evaluated == check_game_over(game)
       IN  evaluated.winner =
             IF evaluated.player_mistakes < evaluated.ai_mistakes THEN "Player"
             ELSE IF evaluated.player_mistakes > evaluated.ai_mistakes THEN "AI"
             ELSE "Draw"

\* the outcome has been evaluated on a full board that is not solved
C24_Witness ==
  /\ pc = "running" /\ all_filled(game)
  /\ ~is_board_solved(game) /\ ~check_ai_moves(game).ret
  /\ game.game_over /\ game.winner # "None"

SpendLogicMoveUI(row, col, value) ==
  /\ pc = "running" /\ game.player_turn /\ game.logic_moves_remaining > 0
  /\ \E o \in use_logic_move(game, row, col, value) : Handled(o.g, o.ret)
  /\ UNCHANGED frames

NextUIBudget ==
  \/ \E p \in UITargets, value \in Digits : HandleBoardClick(p[1], p[2], value)
  \/ \E p \in DiagonalLogicTargets, value \in Digits : SpendLogicMoveUI(p[1], p[2], value)
  \/ HandleGiveUp
  \/ Update

\* the play the UI drives, with the whole budget of logic moves
SpecUIBudget == InitDiagonal /\ [][NextUIBudget]_vars

\* the cells still to settle: empty, or in superposition
Open(g) ==
  {p \in Pos : (g.board[p].collapsed /\ g.board[p].value = 0) \/ ~g.board[p].collapsed}

\* handle_board_click or handle_logic_move has a move the engine accepts: a
\* legal value for an empty cell, a superposed cell to collapse, or a logic
\* move left for an unlocked cell
PlayerCanMove(g) ==
  \/ \E p \in Pos, value \in 1..9 :
       /\ ~g.board[p].locked
       /\ \E o \in make_move(g, p[1], p[2], value) : o.ret = "True"
  \/ /\ g.logic_moves_remaining > 0
     /\ \E p \in Pos : ~g.board[p].locked

\* C26: every session becomes terminal: no call ends the session without an
\* outcome (every rejection leaves it in its prior valid state), in every
\* state at the player's turn that is not terminal the player has a move
\* that is accepted, and every ai_move on a board that is not full leaves
\* strictly fewer cells empty or in superposition
C26_SessionGoesOn ==
  ~game.game_over =>
    /\ pc # "crashed"
    /\ pc = "running" => PlayerCanMove(game)
    /\ pc = "ai_thinking" =>
         \A o \in ai_move(game) : Cardinality(Open(o.g)) < Cardinality(Open(game))

(***************************************************************************)
(* Logic moves and AI moves on empty cells.                                *)
(***************************************************************************)
\* C27: use_logic_move with logic moves left, on an unlocked resolved empty
\* cell and with a value v, sets the cell to v and returns True whatever
\* conflicts v creates; every other cell and both mistake counters stay as
\* they were, and using_logic_move is False afterwards
C27_LogicMoveForcesValue ==
  pc = "running" =>
    \A p \in Pos, v \in 1..9 :
      LET cell == game.board[p]
      IN  (/\ game.logic_moves_remaining > 0
           /\ ~cell.locked /\ cell.collapsed /\ cell.value = 0) =>
            \A o \in use_logic_move(game, p[1], p[2], v) :
              /\ o.ret = "True"
              /\ o.g.board[p] = [cell EXCEPT !.value = v]
              /\ \A q \in Pos \ {p} : o.g.board[q] = game.board[q]
              /\ o.g.player_mistakes = game.player_mistakes
              /\ o.g.ai_mistakes = game.ai_mistakes
              /\ ~o.g.using_logic_move

\* a logic move has forced a clashing value into a cell (no mistake has been
\* counted, so neither make_move nor ai_move put it there), and another
\* empty cell and logic moves are left
C27_Witness ==
  /\ pc = "running"
  /\ game.player_mistakes = 0 /\ game.ai_mistakes = 0
  /\ game.logic_moves_remaining \in 1..9
  /\ ~game.using_logic_move
  /\ \E p \in Pos :
       /\ ~game.board[p].locked /\ game.board[p].collapsed /\ game.board[p].value # 0
       /\ ~is_valid_move(game, p[1], p[2], game.board[p].value, TRUE)
  /\ \E p \in Pos :
       ~game.board[p].locked /\ game.board[p].collapsed /\ game.board[p].value = 0

\* C28: on a session that is not over, with no cell in superposition and at
\* least one empty cell, ai_move fills exactly one empty cell and changes no
\* other cell; the value is legal for the cell (rows, columns, box,
\* diagonals; candidates not consulted) whenever a legal value exists, and
\* ai_mistakes grows in the move exactly when none exists.  With a cell in
\* superposition, ai_move collapses a superposed cell and fills no empty cell
C28_AiMoveFillsOneCell ==
  ~game.game_over =>
    LET quantum_cells == {p \in Pos : is_quantum(game.board[p])}
        empty_cells == {p \in Pos : game.board[p].collapsed /\ game.board[p].value = 0}
    IN  /\ (quantum_cells = {} /\ empty_cells # {}) =>
             \A o \in ai_move(game) :
               \E p \in empty_cells :
                 LET legal == {num \in 1..9 : is_valid_move(game, p[1], p[2], num, FALSE)}
                 IN  /\ o.g.board[p].value # 0
                     /\ o.g.board[p] = [game.board[p] EXCEPT !.value = o.g.board[p].value]
                     /\ \A q \in Pos \ {p} : o.g.board[q] = game.board[q]
                     /\ legal # {} => o.g.board[p].value \in legal
                     /\ o.g.ai_mistakes > game.ai_mistakes <=> legal = {}
        /\ quantum_cells # {} =>
             \A o \in ai_move(game) :
               /\ \E p \in quantum_cells : o.g.board[p].collapsed /\ o.g.board[p].value # 0
               /\ \A p \in empty_cells : o.g.board[p] = game.board[p]

(***************************************************************************)
(* The puzzle create_puzzle leaves.                                        *)
(***************************************************************************)
\* C29: immediately after create_puzzle a cell is locked exactly when its
\* value is not 0: every given left is locked, and every carved cell is
\* unlocked, resolved and not entangled
C29_LockedIffGiven ==
  pc = "create_quantum_cells" =>
    \A p \in Pos :
      LET cell == game.board[p]
      IN  /\ cell.locked <=> cell.value # 0
          /\ cell.value = 0 =>
               /\ cell.collapsed /\ cell.superposition = {}
               /\ cell.entangled_with = {} /\ cell.entanglement_group = None

\* create_puzzle has returned, with cells carved and givens left
C29_Witness ==
  /\ pc = "create_quantum_cells"
  /\ \E p \in Pos : game.board[p].value = 0 /\ ~game.board[p].locked
  /\ \E p \in Pos : game.board[p].value # 0 /\ game.board[p].locked

\* the grid solve_board's search fills an empty board with, row by row
SolvedGrid ==
  << <<1, 2, 3, 4, 5, 6, 7, 8, 9>>,
     <<4, 5, 6, 7, 8, 9, 1, 2, 3>>,
     <<7, 8, 9, 1, 2, 3, 4, 5, 6>>,
     <<2, 1, 4, 3, 6, 5, 8, 9, 7>>,
     <<3, 6, 8, 9, 7, 2, 5, 1, 4>>,
     <<5, 9, 7, 8, 1, 4, 6, 3, 2>>,
     <<9, 4, 1, 6, 3, 8, 2, 7, 5>>,
     <<8, 3, 2, 5, 4, 7, 9, 6, 1>>,
     <<6, 7, 5, 2, 9, 1, 3, 4, 8>> >>

\* C30: generate_solved_board consults no random source: whatever the
\* difficulty, create_puzzle starts from one and the same solved grid, and
\* every given of the puzzle it leaves (and of the new game) is the value of
\* that grid
C30_OneSolvedGrid ==
  /\ (pc = "create_puzzle" /\ frames = <<>>) =>
       \A p \in Pos : game.board[p].value = SolvedGrid[p[1] + 1][p[2] + 1]
  /\ pc \in {"create_quantum_cells", "running"} =>
       \A p \in Pos : game.board[p].value # 0 =>
                         game.board[p].value = SolvedGrid[p[1] + 1][p[2] + 1]

\* a hard puzzle has been carved from the grid (SolvedGame is generated
\* with difficulty easy)
C30_Witness ==
  /\ pc = "create_quantum_cells" /\ game.difficulty = "hard"
  /\ \E p \in Pos : game.board[p].value = 0
  /\ \A p \in Pos : game.board[p].value \in {0, SolvedGame.board[p].value}
====
